---------------------------- MODULE Spec2Model ----------------------------
(***************************************************************************)
(* RTIMS: the stock-mutation ledger (ProductService / ProductHandler over  *)
(* the PostgreSQL schema) and the real-time broadcast hub.                 *)
(*                                                                         *)
(* The ledger part models the products and stock_movements tables under    *)
(* READ COMMITTED: a statement executed on a transaction writes a          *)
(* transaction-local image that becomes visible at Commit; an UPDATE of a  *)
(* row waits for the row lock and then evaluates "stock + $1" on the       *)
(* latest committed row; CHECK and FOREIGN KEY constraints are evaluated   *)
(* by the statement and make it fail.                                      *)
(***************************************************************************)
EXTENDS Integers, Sequences, FiniteSets, TLC

\* ------------------------------------------------------------------ bounds
MaxCalls == 2          \* request handlers that run (each request runs once)
MaxAdmin == 1          \* of them, CreateProduct/UpdateProduct/DeleteProduct requests
MaxFaults == 1         \* storage failures injected in one behaviour
HubCap == 2            \* capacity of hub.Broadcast
RegCap == 1            \* capacity of hub.Register and of hub.Unregister
SendCap == 2           \* capacity of client.Send (256 in ServeWebSocket)
MaxEvents == 2         \* messages the request handlers broadcast to a running hub
MaxDisconnects == 1    \* connections that fail or are closed by their client

Calls == 1..MaxCalls
Products == {"p1", "p2"}
Clients == {"a", "b"}
ClientOrder == <<"a", "b">>   \* sessions are interchangeable: they connect in this order
InitStocks == {10}            \* quantity of p1 when the requests start
Changes == {-8, -5, 9} \* req.Change of the UpdateStock requests
NewStocks == {0, 5}           \* req.Stock of CreateProduct
Thresholds == {0, 10}         \* req.MinimumThreshold of CreateProduct
DirectStocks == {-1, 3}       \* req.Stock of UpdateProduct
P1Thresholds == {10}          \* minimum_threshold of p1
Reasons == {"adjustment"}     \* req.Reason of the UpdateStock requests
AnyChanges == {0, -5}         \* req.Change of requests nothing has validated
AnyReasons == {"sale", "refund"}  \* req.Reason of such requests

MaxReqs == 3                  \* HTTP requests passing through RateLimit
MaxTime == 4                  \* seconds of wall-clock time
Limit == 2                    \* limit := 100, scaled
Window == 2                   \* window := int64(60) seconds, scaled
CleanupAfter == 3             \* the 300 seconds between cleanups, scaled
Reqs == 1..MaxReqs
IPs == {"ip1", "ip2"}         \* c.ClientIP()
IdleReq == [pc |-> "idle", ip |-> "none", now |-> 0, valid |-> <<>>,
            result |-> "none"]

VARIABLES
  exists,        \* ids of the rows of products
  deleted,       \* ids of the rows of products that were deleted
  stock,         \* products.stock (committed)
  minThreshold,  \* products.minimum_threshold (committed)
  initStock,     \* the quantity each product row was inserted with
  movements,     \* the committed rows of stock_movements, in commit order
  lock,          \* row lock of each products row: the call holding it, or 0
  call,          \* one record per request: handler, position, locals
  notifications, \* the rows of notifications (the request that stored each)
  hubBroadcast,  \* the messages waiting in hub.Broadcast
  clock,         \* time.Now() of the next message built
  hubRegister,   \* the clients waiting in hub.Register
  hubUnregister, \* the clients waiting in hub.Unregister
  registry,      \* the hub's set of registered clients
  send,          \* client.Send of each client: its outbound queue
  sendClosed,    \* whether the hub has closed client.Send
  wire,          \* what each client's writer loop wrote to its connection
  drops,         \* the hub's count of deliveries dropped for each client
  session,       \* per connection: state, writer loop, reader loop, snapshot
  faults,        \* storage failures injected so far
  limiter,       \* RateLimit's map: client IP -> times of its recorded requests
  lastCleanup,   \* RateLimit's lastCleanup
  wallClock,     \* time.Now().Unix()
  req,           \* one record per HTTP request inside RateLimit
  mapFault       \* the runtime stopped the process on a concurrent map access

productVars == <<exists, deleted, stock, minThreshold, initStock>>
dbVars == <<productVars, movements, lock, notifications>>
hubVars == <<hubRegister, hubUnregister, registry, send, sendClosed, wire,
             drops, session>>
limitVars == <<limiter, lastCleanup, wallClock, req, mapFault>>
vars == <<dbVars, call, faults, hubBroadcast, clock, hubVars, limitVars>>

IdleCall == [kind |-> "none", pc |-> "idle", product |-> "p1", change |-> 0,
             oldStock |-> 0, newStock |-> 0, newThreshold |-> 0,
             txStock |-> 0, txRows |-> 0, txMove |-> FALSE, committed |-> 0,
             engine |-> "none", result |-> "none", alerted |-> FALSE,
             emitted |-> 0, reason |-> "none"]

NoSession == [state |-> "none", conn |-> "none", writer |-> "none",
              reader |-> "none", snapshot |-> "none"]

\* ------------------------------------------------------------- the schema
\* products.stock INTEGER NOT NULL DEFAULT 0 CHECK (stock >= 0)
CheckStockOff(v) == TRUE
CheckStock(v) == v >= 0

\* stock_movements.reason VARCHAR(20) NOT NULL CHECK (reason IN (...))
CheckReason(r) ==
  r \in {"purchase", "sale", "adjustment", "return", "damage", "transfer"}

\* stock_movements.change INTEGER NOT NULL: any integer
CheckChange(ch) == ch \in Int

\* stock_movements.product_id REFERENCES products(id)
ForeignKeyOk(p) == p \in exists

\* the row of stock_movements one UpdateProductStock call inserts
MovementRowNegated(c, p, ch) == [id |-> c, product |-> p, change |-> 0 - ch]
MovementRow(c, p, ch) == [id |-> c, product |-> p, change |-> ch]

RECURSIVE SumChanges(_, _)
SumChanges(rows, p) ==
  IF rows = <<>> THEN 0
  ELSE (IF Head(rows).product = p THEN Head(rows).change ELSE 0)
       + SumChanges(Tail(rows), p)

RowsOf(c) == {i \in 1..Len(movements) : movements[i].id = c}

\* ------------------------------------------------------------------- init
Init ==
  /\ exists = {"p1"}
  /\ deleted = {}
  /\ \E s \in InitStocks :
       /\ stock = [p \in Products |-> IF p = "p1" THEN s ELSE 0]
       /\ initStock = [p \in Products |-> IF p = "p1" THEN s ELSE 0]
       /\ movements = <<MovementRow(0, "p1", s)>>
  /\ \E thr \in P1Thresholds :
       minThreshold = [p \in Products |-> IF p = "p1" THEN thr ELSE 0]
  /\ lock = [p \in Products |-> 0]
  /\ call = [c \in Calls |-> IdleCall]
  /\ notifications = <<>>
  /\ hubBroadcast = <<>>
  /\ clock = 1
  /\ hubRegister = <<>>
  /\ hubUnregister = <<>>
  /\ registry = {}
  /\ send = [cl \in Clients |-> <<>>]
  /\ sendClosed = [cl \in Clients |-> FALSE]
  /\ wire = [cl \in Clients |-> <<>>]
  /\ drops = [cl \in Clients |-> 0]
  /\ session = [cl \in Clients |-> NoSession]
  /\ faults = 0
  /\ limiter = [ip \in {} |-> <<>>]
  /\ lastCleanup = 0
  /\ wallClock = 0
  /\ req = [r \in Reqs |-> IdleReq]
  /\ mapFault = FALSE

\* ------------------------------------------------ storage and the channel
\* a round trip to the store may fail (connection lost, timeout)
StoreCanFail == faults < MaxFaults

\* select { case hub.Broadcast <- jsonData: default: }
TrySendEvictOldest(q, m) ==
  IF Len(q) < HubCap THEN Append(q, m) ELSE Append(Tail(q), m)
TrySendFront(q, m) == IF Len(q) < HubCap THEN <<m>> \o q ELSE q
TrySend(q, m) == IF Len(q) < HubCap THEN Append(q, m) ELSE q

StockChangeMsg(c, p, n) ==
  [type |-> "stock_change", from |-> c, product |-> p, new_stock |-> n,
   timestamp |-> clock]
NotificationMsg(c, p, n) ==
  [type |-> "notification", from |-> c, product |-> p, new_stock |-> n,
   timestamp |-> clock]

\* calls are interchangeable: a request takes the lowest free slot
FreeSlot(c) ==
  /\ call[c].pc = "idle"
  /\ \A d \in Calls : d < c => call[d].pc # "idle"

\* a request that has answered keeps what it was asked and what it answered
Finished(r, res) ==
  [IdleCall EXCEPT !.kind = r.kind, !.pc = "done", !.product = r.product,
                   !.change = r.change, !.oldStock = r.oldStock,
                   !.engine = r.engine, !.committed = r.committed,
                   !.emitted = r.emitted, !.reason = r.reason, !.result = res]

AdminSlot(c) ==
  /\ FreeSlot(c)
  /\ Cardinality({d \in Calls : call[d].kind \in
                    {"CreateProduct", "UpdateProduct", "DeleteProduct"}}) < MaxAdmin

NewCall(kind, pc, p, ch, res) ==
  [IdleCall EXCEPT !.kind = kind, !.pc = pc, !.product = p, !.change = ch,
                   !.result = res]

\* --------------------------------------- ProductHandler.UpdateStock
\* GetProduct(id) and oldStock := product.Stock, before anything is written
UpdateStockBegin(c, p, ch, rs) ==
  /\ FreeSlot(c)
  /\ \/ /\ p \in exists
        /\ call' = [call EXCEPT ![c] =
                      [NewCall("UpdateStock", "tx_update", p, ch, "none")
                         EXCEPT !.oldStock = stock[p], !.reason = rs]]
        /\ UNCHANGED faults
     \/ /\ p \notin exists
        /\ call' = [call EXCEPT ![c] =
                      [NewCall("UpdateStock", "done", p, ch, "not_found")
                         EXCEPT !.reason = rs]]
        /\ UNCHANGED faults
     \/ /\ StoreCanFail
        /\ faults' = faults + 1
        /\ call' = [call EXCEPT ![c] =
                      [NewCall("UpdateStock", "done", p, ch, "storage")
                         EXCEPT !.reason = rs]]
  /\ UNCHANGED <<dbVars, hubBroadcast, clock, hubVars>>
  /\ UNCHANGED limitVars

\* ------------------------------- ProductService.UpdateProductStock
\* the row lock the UPDATE needs: free, or already held by this transaction
RowLockFreeNoWait(p, c) == TRUE
RowLockFreeTable(p, c) == \A q \in Products : lock[q] \in {0, c}
RowLockFree(p, c) == lock[p] \in {0, c}

\* what a concurrent reader sees of products.stock once the UPDATE has run
\* on the transaction: nothing yet
StockAfterExecAutocommit(p, v) == [stock EXCEPT ![p] = v]
StockAfterExec(p, v) == stock

\* deferred tx.Rollback() / Commit release the row locks of the transaction
Released(c) == [q \in Products |-> IF lock[q] = c THEN 0 ELSE lock[q]]

\* the handler's branch on the error UpdateProductStock returns
\* (UpdateStock: if err != nil -> 500; CreateProduct likewise)
EngineReturnIgnoringError(c, eng) ==
  [call[c] EXCEPT !.engine = eng,
                  !.pc = IF call[c].kind = "UpdateStock" THEN "get2" ELSE "cbcast"]
EngineReturn(c, eng) ==
  IF eng = "ok"
  THEN [call[c] EXCEPT !.engine = eng,
                       !.pc = IF call[c].kind = "UpdateStock" THEN "get2" ELSE "cbcast"]
  ELSE Finished([call[c] EXCEPT !.engine = eng], eng)

\* SET stock = stock + $1, evaluated by the store on the locked row
UpdatedStockFromRead(c, p) == call[c].oldStock + call[c].change
UpdatedStock(c, p) == stock[p] + call[c].change

\* db.Begin(); tx.Exec(UPDATE products SET stock = stock + $1 WHERE id = $3)
ExecUpdate(c) ==
  LET p == call[c].product
      v == UpdatedStock(c, p)
  IN
  /\ call[c].pc = "tx_update"
  /\ \/ \* Begin or Exec fails in the store
        /\ StoreCanFail
        /\ faults' = faults + 1
        /\ call' = [call EXCEPT ![c] = EngineReturn(c, "storage")]
        /\ UNCHANGED <<lock, stock>>
     \/ \* no such row: the UPDATE affects no row and reports no error
        /\ p \notin exists
        /\ call' = [call EXCEPT ![c] = [@ EXCEPT !.pc = "tx_insert", !.txRows = 0]]
        /\ UNCHANGED <<lock, stock, faults>>
     \/ \* the new row violates CHECK (stock >= 0); deferred Rollback
        /\ p \in exists
        /\ RowLockFree(p, c)
        /\ ~CheckStock(v)
        /\ call' = [call EXCEPT ![c] = EngineReturn(c, "check_violation")]
        /\ UNCHANGED <<lock, stock, faults>>
     \/ /\ p \in exists
        /\ RowLockFree(p, c)
        /\ CheckStock(v)
        /\ lock' = [lock EXCEPT ![p] = c]
        /\ stock' = StockAfterExec(p, v)
        /\ call' = [call EXCEPT ![c] =
                      [@ EXCEPT !.pc = "tx_insert", !.txStock = v, !.txRows = 1]]
        /\ UNCHANGED faults
  /\ UNCHANGED <<exists, deleted, minThreshold, initStock, movements,
                 notifications, hubBroadcast, clock, hubVars>>
  /\ UNCHANGED limitVars

\* tx.Exec(INSERT INTO stock_movements ...)
ExecInsert(c) ==
  LET p == call[c].product IN
  /\ call[c].pc = "tx_insert"
  /\ \/ /\ ForeignKeyOk(p)
        /\ CheckReason(call[c].reason) /\ CheckChange(call[c].change)
        /\ call' = [call EXCEPT ![c] = [@ EXCEPT !.pc = "tx_commit", !.txMove = TRUE]]
        /\ UNCHANGED <<lock, faults>>
     \/ \* the row violates a CHECK of stock_movements; deferred Rollback
        /\ ForeignKeyOk(p)
        /\ ~(CheckReason(call[c].reason) /\ CheckChange(call[c].change))
        /\ call' = [call EXCEPT ![c] = EngineReturn(c, "check_violation")]
        /\ lock' = Released(c)
        /\ UNCHANGED faults
     \/ \* foreign key violation; deferred Rollback
        /\ ~ForeignKeyOk(p)
        /\ call' = [call EXCEPT ![c] = EngineReturn(c, "fk_violation")]
        /\ lock' = Released(c)
        /\ UNCHANGED faults
     \/ /\ StoreCanFail
        /\ faults' = faults + 1
        /\ call' = [call EXCEPT ![c] = EngineReturn(c, "storage")]
        /\ lock' = Released(c)
  /\ UNCHANGED <<productVars, movements, notifications, hubBroadcast, clock, hubVars>>
  /\ UNCHANGED limitVars

\* return tx.Commit()
Commit(c) ==
  LET p == call[c].product IN
  /\ call[c].pc = "tx_commit"
  /\ \/ /\ stock' = IF call[c].txRows = 1
                    THEN [stock EXCEPT ![p] = call[c].txStock] ELSE stock
        /\ movements' = IF call[c].txMove
                        THEN Append(movements, MovementRow(c, p, call[c].change))
                        ELSE movements
        /\ call' = [call EXCEPT ![c] =
                      [EngineReturn(c, "ok") EXCEPT !.committed = call[c].txStock]]
        /\ UNCHANGED faults
     \/ \* the commit fails: nothing of the transaction becomes visible
        /\ StoreCanFail
        /\ faults' = faults + 1
        /\ call' = [call EXCEPT ![c] = EngineReturn(c, "storage")]
        /\ UNCHANGED <<stock, movements>>
  /\ lock' = Released(c)
  /\ UNCHANGED <<exists, deleted, minThreshold, initStock, notifications,
                 hubBroadcast, clock, hubVars>>
  /\ UNCHANGED limitVars

\* the status line of the handler's answer: http.StatusOK, or
\* http.StatusInternalServerError on every error path
HttpStatus(r) == IF r.result = "ok" THEN 200 ELSE 500

\* movementID := uuid.New() in UpdateProductStock: the id of the persisted row
PersistedMovementId(c) == MovementRow(c, call[c].product, call[c].change).id

\* stockMovement := models.StockMovement{ID: uuid.New(), ...} in the handler:
\* another draw, equal to no other identifier; the answer is
\* {"message", "stock_movement"} and carries no quantity
ResponseMovementId(c) == MaxCalls + c

Response(c) ==
  [status |-> HttpStatus(call[c]),
   stock_movement |-> [id |-> ResponseMovementId(c), product |-> call[c].product,
                       change |-> call[c].change]]

\* ----------------------------- ProductHandler.UpdateStock, after the commit
\* updatedProduct, err := GetProduct(id); if err != nil -> 500
GetUpdated(c) ==
  LET p == call[c].product IN
  /\ call[c].pc = "get2"
  /\ \/ /\ p \in exists
        /\ call' = [call EXCEPT ![c] =
                      [@ EXCEPT !.pc = "bcast", !.newStock = stock[p],
                                !.newThreshold = minThreshold[p]]]
        /\ UNCHANGED faults
     \/ /\ p \notin exists
        /\ call' = [call EXCEPT ![c] = Finished(@, "not_found")]
        /\ UNCHANGED faults
     \/ /\ StoreCanFail
        /\ faults' = faults + 1
        /\ call' = [call EXCEPT ![c] = Finished(@, "storage")]
  /\ UNCHANGED <<dbVars, hubBroadcast, clock, hubVars>>
  /\ UNCHANGED limitVars

\* websocket.BroadcastStockUpdate(h.hub, id, updatedProduct.Stock)
BroadcastStockUpdate(c, p, n) == TrySend(hubBroadcast, StockChangeMsg(c, p, n))

\* websocket.BroadcastNotification(h.hub, userID, notification.Message, type)
BroadcastNotification(c, p, n) == TrySend(hubBroadcast, NotificationMsg(c, p, n))

SendStockChange(c) ==
  /\ call[c].pc = "bcast"
  /\ hubBroadcast' = BroadcastStockUpdate(c, call[c].product, call[c].newStock)
  /\ clock' = clock + 1
  /\ UNCHANGED hubVars
  /\ call' = [call EXCEPT ![c] = [@ EXCEPT !.pc = "notify", !.emitted = @ + 1]]
  /\ UNCHANGED <<dbVars, faults>>
  /\ UNCHANGED limitVars

\* if updatedProduct.Stock <= updatedProduct.MinimumThreshold &&
\*    updatedProduct.MinimumThreshold > 0
DeriveAlertOnTransition(old, new, thr) == old > thr /\ new <= thr /\ thr > 0
DeriveAlert(old, new, thr) == new <= thr /\ thr > 0

\* err = CreateNotification(notification): an error is logged, and the
\* handler goes on to c.JSON(http.StatusOK, ...)
AnswerAfterNotifySurfacing(stored) == IF stored THEN "ok" ELSE "storage"
AnswerAfterNotify(stored) == "ok"

\* the low-stock notification, then c.JSON(http.StatusOK, ...)
Notify(c) ==
  LET p == call[c].product
      low == DeriveAlert(call[c].oldStock, call[c].newStock, call[c].newThreshold)
  IN
  /\ call[c].pc = "notify"
  /\ \/ /\ ~low
        /\ call' = [call EXCEPT ![c] = Finished(@, AnswerAfterNotify(TRUE))]
        /\ UNCHANGED <<notifications, hubBroadcast, clock, hubVars, faults>>
     \/ \* CreateNotification stored the row
        /\ low
        /\ notifications' = Append(notifications, c)
        /\ hubBroadcast' = BroadcastNotification(c, p, call[c].newStock)
        /\ clock' = clock + 1
        /\ call' = [call EXCEPT ![c] =
                      [Finished(@, AnswerAfterNotify(TRUE))
                         EXCEPT !.alerted = TRUE,
                                !.emitted = call[c].emitted + 1]]
        /\ UNCHANGED <<faults, hubVars>>
     \/ \* CreateNotification failed: logged, nothing is broadcast
        /\ low
        /\ StoreCanFail
        /\ faults' = faults + 1
        /\ call' = [call EXCEPT ![c] =
                      [Finished(@, AnswerAfterNotify(FALSE)) EXCEPT !.alerted = TRUE]]
        /\ UNCHANGED <<notifications, hubBroadcast, clock, hubVars>>
  /\ UNCHANGED <<productVars, movements, lock>>
  /\ UNCHANGED limitVars

\* ------------------------------------------ ProductHandler.CreateProduct
\* productService.CreateProduct: INSERT INTO products (... stock ...) with
\* req.Stock, then UpdateProductStock(product.ID, req.Stock, purchase, ...)
CreateProductInsert(c, p, s, thr) ==
  /\ AdminSlot(c)
  /\ p \notin exists \cup deleted        \* product.ID = uuid.New()
  /\ \/ /\ CheckStock(s)
        /\ exists' = exists \cup {p}
        /\ stock' = [stock EXCEPT ![p] = s]
        /\ minThreshold' = [minThreshold EXCEPT ![p] = thr]
        /\ initStock' = [initStock EXCEPT ![p] = s]
        /\ call' = [call EXCEPT ![c] =
                      IF s > 0
                      THEN [NewCall("CreateProduct", "tx_update", p, s, "none")
                              EXCEPT !.newThreshold = thr, !.reason = "purchase"]
                      ELSE NewCall("CreateProduct", "done", p, s, "ok")]
        /\ UNCHANGED faults
     \/ /\ StoreCanFail
        /\ faults' = faults + 1
        /\ call' = [call EXCEPT ![c] = NewCall("CreateProduct", "done", p, s, "storage")]
        /\ UNCHANGED <<exists, stock, minThreshold, initStock>>
  /\ UNCHANGED <<deleted, movements, lock, notifications, hubBroadcast, clock, hubVars>>
  /\ UNCHANGED limitVars

\* if req.Stock <= req.MinimumThreshold { BroadcastStockUpdate(..., req.Stock) }
CreateProductBroadcast(c) ==
  /\ call[c].pc = "cbcast"
  /\ hubBroadcast' = IF call[c].change <= call[c].newThreshold
                     THEN BroadcastStockUpdate(c, call[c].product, call[c].change)
                     ELSE hubBroadcast
  /\ clock' = IF call[c].change <= call[c].newThreshold THEN clock + 1 ELSE clock
  /\ UNCHANGED hubVars
  /\ call' = [call EXCEPT ![c] =
                [Finished(@, "ok") EXCEPT !.emitted =
                   IF call[c].change <= call[c].newThreshold THEN 1 ELSE 0]]
  /\ UNCHANGED <<dbVars, faults>>
  /\ UNCHANGED limitVars

\* ------------------------------------------ ProductHandler.UpdateProduct
\* updates["stock"] = *req.Stock; UPDATE products SET stock = $1 WHERE id = $n
UpdateProduct(c, p, v) ==
  /\ AdminSlot(c)
  /\ \/ /\ p \notin exists
        /\ call' = [call EXCEPT ![c] = NewCall("UpdateProduct", "done", p, v, "not_found")]
        /\ UNCHANGED stock
     \/ /\ p \in exists
        /\ RowLockFree(p, c)
        /\ ~CheckStock(v)
        /\ call' = [call EXCEPT ![c] =
                      NewCall("UpdateProduct", "done", p, v, "check_violation")]
        /\ UNCHANGED stock
     \/ /\ p \in exists
        /\ RowLockFree(p, c)
        /\ CheckStock(v)
        /\ stock' = [stock EXCEPT ![p] = v]
        /\ call' = [call EXCEPT ![c] = NewCall("UpdateProduct", "done", p, v, "ok")]
  /\ UNCHANGED <<exists, deleted, minThreshold, initStock, movements, lock,
                 notifications, hubBroadcast, clock, hubVars, faults>>
  /\ UNCHANGED limitVars

\* ------------------------------------------ ProductHandler.DeleteProduct
\* DELETE FROM products WHERE id = $1; stock_movements.product_id is
\* REFERENCES products(id) ON DELETE CASCADE
DeleteProduct(c, p) ==
  /\ AdminSlot(c)
  /\ \/ /\ p \notin exists
        /\ call' = [call EXCEPT ![c] = NewCall("DeleteProduct", "done", p, 0, "not_found")]
        /\ UNCHANGED <<exists, deleted, movements>>
     \/ /\ p \in exists
        /\ RowLockFree(p, c)
        /\ exists' = exists \ {p}
        /\ deleted' = deleted \cup {p}
        /\ movements' = SelectSeq(movements, LAMBDA r : r.product # p)
        /\ call' = [call EXCEPT ![c] = NewCall("DeleteProduct", "done", p, 0, "ok")]
  /\ UNCHANGED <<stock, minThreshold, initStock, lock, notifications,
                 hubBroadcast, clock, hubVars, faults>>
  /\ UNCHANGED limitVars

\* ------------------------------------------- DashboardService.GetAlerts
\* severity := "high"; if stock == 0 { severity = "critical" }
SeverityInverted(s) == IF s # 0 THEN "critical" ELSE "high"
Severity(s) == IF s = 0 THEN "critical" ELSE "high"

\* SELECT ... FROM products p WHERE p.stock <= p.minimum_threshold AND
\* p.minimum_threshold > 0: one alert per row
GetAlerts ==
  {[product_id |-> p, current_stock |-> stock[p],
    minimum_threshold |-> minThreshold[p], severity |-> Severity(stock[p])] :
      p \in {q \in exists : stock[q] <= minThreshold[q] /\ minThreshold[q] > 0}}

\* --------------------------------------------------------- ServeWebSocket
\* client := &Client{..., Send: make(chan []byte, 256)};
\* client.Hub.Register <- client; go WritePump(); go ReadPump(); go func(){...}
ServeWebSocket(cl) ==
  /\ session[cl].state = "none"
  /\ \A i, j \in 1..Len(ClientOrder) :
        (i < j /\ ClientOrder[j] = cl) => session[ClientOrder[i]].state # "none"
  /\ Len(hubRegister) < RegCap
  /\ hubRegister' = Append(hubRegister, cl)
  /\ session' = [session EXCEPT ![cl] =
                   [state |-> "connecting", conn |-> "open", writer |-> "running",
                    reader |-> "running", snapshot |-> "stock"]]
  /\ UNCHANGED <<dbVars, call, faults, hubBroadcast, clock, hubUnregister,
                 registry, send, sendClosed, wire, drops>>
  /\ UNCHANGED limitVars

SnapshotMsg(kind) ==
  [type |-> kind, from |-> 0, product |-> "p1", new_stock |-> 0, timestamp |-> 0]

\* select { case client.Send <- jsonData: case <-time.After(time.Second): }
SendOrTimeout(q, m) == IF Len(q) < SendCap THEN Append(q, m) ELSE q

\* WHERE stock <= minimum_threshold AND minimum_threshold > 0
LowStockProductsAnyThreshold == {p \in exists : stock[p] <= minThreshold[p]}
LowStockProducts ==
  {p \in exists : stock[p] <= minThreshold[p] /\ minThreshold[p] > 0}

\* the initial-data goroutine: each function sends when it has something to
\* send; a send on a channel the hub has closed panics
AfterSnapshot(cl, nonEmpty, next) ==
  IF nonEmpty /\ sendClosed[cl] THEN "panic" ELSE next

SnapshotQueue(cl, nonEmpty, kind) ==
  IF nonEmpty /\ ~sendClosed[cl]
  THEN SendOrTimeout(send[cl], SnapshotMsg(kind)) ELSE send[cl]

sendStockUpdates(cl) ==
  /\ session[cl].snapshot = "stock"
  /\ session' = [session EXCEPT ![cl].snapshot =
                   AfterSnapshot(cl, LowStockProducts # {}, "notifications")]
  /\ send' = [send EXCEPT ![cl] =
                SnapshotQueue(cl, LowStockProducts # {}, "stock_update")]
  /\ UNCHANGED <<dbVars, call, faults, hubBroadcast, clock, hubRegister,
                 hubUnregister, registry, sendClosed, wire, drops>>
  /\ UNCHANGED limitVars

sendNotifications(cl) ==
  /\ session[cl].snapshot = "notifications"
  /\ session' = [session EXCEPT ![cl].snapshot =
                   AfterSnapshot(cl, notifications # <<>>, "status")]
  /\ send' = [send EXCEPT ![cl] =
                SnapshotQueue(cl, notifications # <<>>, "notifications")]
  /\ UNCHANGED <<dbVars, call, faults, hubBroadcast, clock, hubRegister,
                 hubUnregister, registry, sendClosed, wire, drops>>
  /\ UNCHANGED limitVars

sendSystemStatus(cl) ==
  /\ session[cl].snapshot = "status"
  /\ session' = [session EXCEPT ![cl].snapshot = AfterSnapshot(cl, TRUE, "done")]
  /\ send' = [send EXCEPT ![cl] = SnapshotQueue(cl, TRUE, "system_status")]
  /\ UNCHANGED <<dbVars, call, faults, hubBroadcast, clock, hubRegister,
                 hubUnregister, registry, sendClosed, wire, drops>>
  /\ UNCHANGED limitVars

\* ----------------------------------------------------------------- Hub.Run
\* case client := <-h.Register
HubRegister ==
  /\ hubRegister # <<>>
  /\ LET cl == Head(hubRegister) IN
       /\ registry' = registry \cup {cl}
       /\ session' = [session EXCEPT ![cl].state = "registered"]
  /\ hubRegister' = Tail(hubRegister)
  /\ UNCHANGED <<dbVars, call, faults, hubBroadcast, clock, hubUnregister,
                 send, sendClosed, wire, drops>>
  /\ UNCHANGED limitVars

\* unregister acts on a session only while the registry holds it
IsRegisteredUnchecked(cl) == TRUE
IsRegistered(cl) == cl \in registry

\* case client := <-h.Unregister: a registered client is removed and its
\* outbound queue closed; anything else is a no-op
HubUnregister ==
  /\ hubUnregister # <<>>
  /\ LET cl == Head(hubUnregister) IN
       IF IsRegistered(cl)
       THEN /\ registry' = registry \ {cl}
            /\ sendClosed' = [sendClosed EXCEPT ![cl] = TRUE]
            /\ session' = [session EXCEPT ![cl].state = "closed"]
       ELSE UNCHANGED <<registry, sendClosed, session>>
  /\ hubUnregister' = Tail(hubUnregister)
  /\ UNCHANGED <<dbVars, call, faults, hubBroadcast, clock, hubRegister,
                 send, wire, drops>>
  /\ UNCHANGED limitVars

\* the non-blocking enqueue on one client's outbound queue
QueueFull(q) == Len(q) >= SendCap
EnqueueOrCloseAll(q, m) == IF QueueFull(q) THEN <<>> ELSE Append(q, m)
Enqueue(q, m) == IF QueueFull(q) THEN q ELSE Append(q, m)

\* the hub loop never waits for room on a client's outbound queue
HubWaitsForRoom(q) == ~QueueFull(q)
HubCanDeliver(q) == TRUE

\* the sessions a broadcast event is fanned out to: the registered ones
RecipientsWithPending == registry \cup {cl \in Clients : session[cl].state = "connecting"}
Recipients == registry

\* case message := <-h.Broadcast: every registered client, in turn
HubBroadcast ==
  /\ hubBroadcast # <<>>
  /\ \A cl \in registry : HubCanDeliver(send[cl])
  /\ LET m == Head(hubBroadcast) IN
       /\ send' = [cl \in Clients |->
                     IF cl \in Recipients THEN Enqueue(send[cl], m) ELSE send[cl]]
       /\ drops' = [cl \in Clients |->
                      IF cl \in Recipients /\ QueueFull(send[cl])
                      THEN drops[cl] + 1 ELSE drops[cl]]
  /\ hubBroadcast' = Tail(hubBroadcast)
  /\ UNCHANGED <<dbVars, call, faults, clock, hubRegister, hubUnregister,
                 registry, sendClosed, wire, session>>
  /\ UNCHANGED limitVars

\* ------------------------------------------------------ the client session
\* the transport fails or the client closes the connection
Disconnect(cl) ==
  /\ session[cl].conn = "open"
  /\ Cardinality({d \in Clients : session[d].conn = "broken"}) < MaxDisconnects
  /\ session' = [session EXCEPT ![cl].conn = "broken"]
  /\ UNCHANGED <<dbVars, call, faults, hubBroadcast, clock, hubRegister,
                 hubUnregister, registry, send, sendClosed, wire, drops>>
  /\ UNCHANGED limitVars

\* a loop that sees its connection fail hands its session to hub.Unregister
TriggerUnregisterForgotten(q, cl) == q
TriggerUnregister(q, cl) == Append(q, cl)

\* the writer loop: write the next queued event to the connection; on a write
\* failure trigger unregister and exit; exit when the queue is closed and empty
WritePump(cl) ==
  /\ session[cl].writer = "running"
  /\ \/ /\ send[cl] # <<>>
        /\ session[cl].conn = "open"
        /\ wire' = [wire EXCEPT ![cl] = Append(@, Head(send[cl]))]
        /\ send' = [send EXCEPT ![cl] = Tail(@)]
        /\ UNCHANGED <<session, hubUnregister>>
     \/ /\ send[cl] # <<>>
        /\ session[cl].conn = "broken"
        /\ Len(hubUnregister) < RegCap
        /\ send' = [send EXCEPT ![cl] = Tail(@)]
        /\ hubUnregister' = TriggerUnregister(hubUnregister, cl)
        /\ session' = [session EXCEPT ![cl].writer = "exited"]
        /\ UNCHANGED wire
     \/ /\ send[cl] = <<>>
        /\ sendClosed[cl]
        /\ session' = [session EXCEPT ![cl].writer = "exited"]
        /\ UNCHANGED <<send, wire, hubUnregister>>
  /\ UNCHANGED <<dbVars, call, faults, hubBroadcast, clock, hubRegister,
                 registry, sendClosed, drops>>
  /\ UNCHANGED limitVars

\* the reader loop: on a read failure or a close frame trigger unregister and
\* exit
ReadPump(cl) ==
  /\ session[cl].reader = "running"
  /\ session[cl].conn = "broken"
  /\ Len(hubUnregister) < RegCap
  /\ hubUnregister' = TriggerUnregister(hubUnregister, cl)
  /\ session' = [session EXCEPT ![cl].reader = "exited"]
  /\ UNCHANGED <<dbVars, call, faults, hubBroadcast, clock, hubRegister,
                 registry, send, sendClosed, wire, drops>>
  /\ UNCHANGED limitVars

\* some request handler calls BroadcastStockUpdate or BroadcastNotification
HandlerBroadcast(kind) ==
  /\ clock <= MaxEvents
  /\ hubBroadcast' = IF kind = "stock_change"
                     THEN BroadcastStockUpdate(0, "p1", 2)
                     ELSE BroadcastNotification(0, "p1", 2)
  /\ clock' = clock + 1
  /\ UNCHANGED <<dbVars, call, faults, hubVars>>
  /\ UNCHANGED limitVars

\* -------------------------------------------------------------------- next
Next ==
  \/ \E c \in Calls, p \in Products, ch \in Changes, rs \in Reasons :
        UpdateStockBegin(c, p, ch, rs)
  \/ \E c \in Calls : ExecUpdate(c)
  \/ \E c \in Calls : ExecInsert(c)
  \/ \E c \in Calls : Commit(c)
  \/ \E c \in Calls : GetUpdated(c)
  \/ \E c \in Calls : SendStockChange(c)
  \/ \E c \in Calls : Notify(c)
  \/ \E c \in Calls, p \in Products, s \in NewStocks, thr \in Thresholds :
        CreateProductInsert(c, p, s, thr)
  \/ \E c \in Calls : CreateProductBroadcast(c)
  \/ \E c \in Calls, p \in Products, v \in DirectStocks : UpdateProduct(c, p, v)
  \/ \E c \in Calls, p \in Products : DeleteProduct(c, p)

Spec == Init /\ [][Next]_vars

\* stock-change requests whose change and reason nothing has validated:
\* ShouldBindJSON enforces no validate: tag of CreateStockMovementRequest
RequestNext ==
  \/ \E c \in Calls, p \in Products, ch \in AnyChanges, rs \in AnyReasons :
        UpdateStockBegin(c, p, ch, rs)
  \/ \E c \in Calls : ExecUpdate(c)
  \/ \E c \in Calls : ExecInsert(c)
  \/ \E c \in Calls : Commit(c)
  \/ \E c \in Calls : GetUpdated(c)
  \/ \E c \in Calls : SendStockChange(c)
  \/ \E c \in Calls : Notify(c)

RequestSpec == Init /\ [][RequestNext]_vars

HubNext ==
  \/ \E cl \in Clients : ServeWebSocket(cl)
  \/ \E cl \in Clients : sendStockUpdates(cl)
  \/ \E cl \in Clients : sendNotifications(cl)
  \/ \E cl \in Clients : sendSystemStatus(cl)
  \/ HubRegister
  \/ HubUnregister
  \/ HubBroadcast
  \/ \E cl \in Clients : Disconnect(cl)
  \/ \E cl \in Clients : WritePump(cl)
  \/ \E cl \in Clients : ReadPump(cl)
  \/ \E kind \in {"stock_change", "notification"} : HandlerBroadcast(kind)

HubSpec == Init /\ [][HubNext]_vars

\* the hub and the sessions with one kind of event (what an event carries
\* plays no part in a session's lifecycle); the hub goroutine and the two
\* loops of every session are scheduled whenever they can take a step
SessionNext ==
  \/ \E cl \in Clients : ServeWebSocket(cl)
  \/ \E cl \in Clients : sendStockUpdates(cl)
  \/ \E cl \in Clients : sendNotifications(cl)
  \/ \E cl \in Clients : sendSystemStatus(cl)
  \/ HubRegister
  \/ HubUnregister
  \/ HubBroadcast
  \/ \E cl \in Clients : Disconnect(cl)
  \/ \E cl \in Clients : WritePump(cl)
  \/ \E cl \in Clients : ReadPump(cl)
  \/ HandlerBroadcast("stock_change")

SessionFairSpec ==
  /\ Init /\ [][SessionNext]_vars
  /\ WF_vars(HubRegister) /\ WF_vars(HubUnregister) /\ WF_vars(HubBroadcast)
  /\ \A cl \in Clients : WF_vars(WritePump(cl)) /\ WF_vars(ReadPump(cl))

\* the hub with one client whose writer loop never drains its outbound queue;
\* the hub goroutine is scheduled whenever one of its three channels has a
\* message for it
SlowClient == "a"

SlowClientNext ==
  \/ \E cl \in Clients : ServeWebSocket(cl)
  \/ \E cl \in Clients : sendStockUpdates(cl)
  \/ \E cl \in Clients : sendNotifications(cl)
  \/ \E cl \in Clients : sendSystemStatus(cl)
  \/ HubRegister
  \/ HubUnregister
  \/ HubBroadcast
  \/ \E cl \in Clients : Disconnect(cl)
  \/ \E cl \in Clients \ {SlowClient} : WritePump(cl)
  \/ \E cl \in Clients : ReadPump(cl)
  \/ \E kind \in {"stock_change", "notification"} : HandlerBroadcast(kind)

SlowClientSpec ==
  /\ Init /\ [][SlowClientNext]_vars
  /\ WF_vars(HubRegister) /\ WF_vars(HubUnregister) /\ WF_vars(HubBroadcast)

\* ------------------------------------------------------------ rate limit
\* the recorded times that are still inside the window at time now
RECURSIVE ValidRequests(_, _)
ValidRequests(requests, now) ==
  IF requests = <<>> THEN <<>>
  ELSE LET rest == ValidRequests(Tail(requests), now) IN
       IF now - Head(requests) < Window THEN <<Head(requests)>> \o rest
       ELSE rest

\* limiter[ip] = requests
MapAssign(m, ip, requests) ==
  [i \in DOMAIN m \cup {ip} |-> IF i = ip THEN requests ELSE m[i]]

\* the cleanup loop: every key keeps its valid requests, a key with none is
\* deleted
Cleanup(m, now) ==
  LET kept == {i \in DOMAIN m : ValidRequests(m[i], now) # <<>>} IN
  [i \in kept |-> ValidRequests(m[i], now)]

\* the middleware is entered: clientIP and now are taken and, when the last
\* cleanup is old enough, the map is cleaned
RateLimitEnter(r, ip) ==
  /\ ~mapFault
  /\ req[r].pc = "idle"
  /\ req' = [req EXCEPT ![r].pc = "check", ![r].ip = ip, ![r].now = wallClock]
  /\ IF wallClock - lastCleanup > CleanupAfter
       THEN /\ limiter' = Cleanup(limiter, wallClock)
            /\ lastCleanup' = wallClock
       ELSE UNCHANGED <<limiter, lastCleanup>>
  /\ UNCHANGED <<wallClock, mapFault>>
  /\ UNCHANGED <<dbVars, call, faults, hubBroadcast, clock, hubVars>>

\* requests, exists := limiter[clientIP]; the valid requests are counted and
\* the request is answered 429 when there are limit of them
RateLimitCheck(r) ==
  /\ ~mapFault
  /\ req[r].pc = "check"
  /\ LET valid == IF req[r].ip \in DOMAIN limiter
                   THEN ValidRequests(limiter[req[r].ip], req[r].now)
                   ELSE <<>>
     IN IF req[r].ip \in DOMAIN limiter /\ Len(valid) >= Limit
        THEN req' = [req EXCEPT ![r].pc = "done", ![r].result = "429"]
        ELSE req' = [req EXCEPT ![r].pc = "record", ![r].valid = valid]
  /\ UNCHANGED <<limiter, lastCleanup, wallClock, mapFault>>
  /\ UNCHANGED <<dbVars, call, faults, hubBroadcast, clock, hubVars>>

\* limiter[clientIP] = append(validRequests, now), then c.Next()
RateLimitRecord(r) ==
  /\ ~mapFault
  /\ req[r].pc = "record"
  /\ limiter' = MapAssign(limiter, req[r].ip, Append(req[r].valid, req[r].now))
  /\ req' = [req EXCEPT ![r].pc = "done", ![r].result = "next"]
  /\ UNCHANGED <<lastCleanup, wallClock, mapFault>>
  /\ UNCHANGED <<dbVars, call, faults, hubBroadcast, clock, hubVars>>

\* two requests assign to the map at the same time: the map has no lock, and
\* the runtime may detect the concurrent writes and stop the process
RateLimitConcurrentWrite(r1, r2) ==
  /\ ~mapFault
  /\ r1 # r2
  /\ req[r1].pc = "record" /\ req[r2].pc = "record"
  /\ mapFault' = TRUE
  /\ UNCHANGED <<limiter, lastCleanup, wallClock, req>>
  /\ UNCHANGED <<dbVars, call, faults, hubBroadcast, clock, hubVars>>

\* a second passes
Tick ==
  /\ wallClock < MaxTime
  /\ wallClock' = wallClock + 1
  /\ UNCHANGED <<limiter, lastCleanup, req, mapFault>>
  /\ UNCHANGED <<dbVars, call, faults, hubBroadcast, clock, hubVars>>

RateLimitNext ==
  \/ \E r \in Reqs, ip \in IPs : RateLimitEnter(r, ip)
  \/ \E r \in Reqs : RateLimitCheck(r)
  \/ \E r \in Reqs : RateLimitRecord(r)
  \/ \E r1 \in Reqs, r2 \in Reqs : RateLimitConcurrentWrite(r1, r2)
  \/ Tick

RateLimitSpec == Init /\ [][RateLimitNext]_vars

TypeOK ==
  /\ exists \subseteq Products
  /\ \A c \in Calls : call[c].pc \in
       {"idle", "tx_update", "tx_insert", "tx_commit", "get2", "bcast", "notify",
        "cbcast", "done"}
  /\ Len(hubBroadcast) <= HubCap

\* ------------------------------------------------------------- properties
AllReturned == \A c \in Calls : call[c].pc \in {"idle", "done"}

EngineOk(p) == {c \in Calls : call[c].engine = "ok" /\ call[c].product = p}

RECURSIVE SumOfChanges(_)
SumOfChanges(S) ==
  IF S = {} THEN 0
  ELSE LET c == CHOOSE x \in S : TRUE IN call[c].change + SumOfChanges(S \ {c})

DirectlyWritten(p) ==
  \E c \in Calls : /\ call[c].kind = "UpdateProduct" /\ call[c].product = p
                   /\ call[c].result = "ok"

StockRequests(p) ==
  {c \in Calls : call[c].kind = "UpdateStock" /\ call[c].product = p}

\* C1: in every committed state, under every interleaving of the stock
\* mutations, the quantity of every product is >= 0.
QuantityNeverNegative == \A p \in exists : stock[p] >= 0

\* a decrement was committed and a concurrent one, started from the same
\* quantity, was rejected by the store
QuantityNeverNegativeWitness ==
  \E c, d \in StockRequests("p1") :
     /\ c # d
     /\ call[c].engine = "ok" /\ call[c].change < 0
     /\ call[d].engine = "check_violation"
     /\ call[c].oldStock = call[d].oldStock

\* C2: once every call has returned, the quantity of a product is its initial
\* quantity plus the deltas of exactly the calls that returned success (for a
\* product whose quantity only the mutation engine wrote).
NoLostUpdate ==
  AllReturned =>
    \A p \in exists :
       ~DirectlyWritten(p) => stock[p] = initStock[p] + SumOfChanges(EngineOk(p))

\* two calls that both read the same quantity before either wrote have both
\* succeeded, and a third has been rejected
NoLostUpdateWitness ==
  /\ AllReturned
  /\ \E c, d \in EngineOk("p1") :
        /\ c # d
        /\ call[c].kind = "UpdateStock" /\ call[d].kind = "UpdateStock"
        /\ call[c].oldStock = call[d].oldStock
  /\ "p1" \in exists

\* C3: two calls with delta -8 against quantity 10: at most one succeeds, the
\* quantity is 2 after a success, one movement row per success, and when the
\* store did not fail exactly one succeeds and the other is rejected by the
\* quantity check.
TwoDecrements ==
  /\ \A c \in {1, 2} : /\ call[c].kind = "UpdateStock" /\ call[c].pc = "done"
                       /\ call[c].product = "p1" /\ call[c].change = -8
  /\ \A c \in Calls \ {1, 2} : call[c].pc = "idle"
  /\ initStock["p1"] = 10

ExactlyOneMovement ==
  \A c \in Calls :
     /\ Cardinality(RowsOf(c)) <= 1
     /\ \A i \in RowsOf(c) :
          /\ call[c].engine = "ok"
          /\ movements[i].product = call[c].product
          /\ movements[i].change = call[c].change
     /\ (call[c].engine = "ok" /\ call[c].product \in exists) => RowsOf(c) # {}

ExactlyOneMovementWitness ==
  \E c, d \in StockRequests("p1") :
     /\ call[c].engine = "ok" /\ RowsOf(c) # {}
     /\ call[d].engine = "check_violation" /\ call[d].pc = "done"

\* C5 (as stated): a stock mutation reported as failed left no movement row
\* and did not commit.
FailedLeavesLedgerUnchanged ==
  \A c \in Calls :
     (call[c].kind = "UpdateStock" /\ call[c].pc = "done" /\ call[c].result # "ok")
        => (RowsOf(c) = {} /\ call[c].engine # "ok")

\* C6: the quantity write and the movement row of one call become visible in
\* the same step, or not at all: every step of a transaction that changes the
\* committed quantity or the committed movement list changes both.
TxPcs == {"tx_update", "tx_insert", "tx_commit"}

AtomicVisibilityStep ==
  \A c \in Calls :
     (call[c].pc \in TxPcs /\ call'[c] # call[c]
        /\ (stock' # stock \/ movements' # movements))
     => LET p == call[c].product IN
        /\ movements' = Append(movements, [id |-> c, product |-> p,
                                           change |-> call[c].change])
        /\ stock' = [stock EXCEPT ![p] = stock[p] + call[c].change]

AtomicVisibility == [][AtomicVisibilityStep]_vars

\* both statements of a transaction have run and neither is visible
AtomicVisibilityWitness ==
  \E c \in Calls :
     /\ call[c].pc = "tx_commit" /\ call[c].txMove
     /\ call[c].txStock # stock[call[c].product]
     /\ RowsOf(c) = {}

\* C7 (as stated): after any sequence of product operations the quantity of
\* each product is the sum of the deltas of its movement rows.
QuantityIsSumOfMovements ==
  AllReturned => \A p \in exists : stock[p] = SumChanges(movements, p)

AlertWheneverLowStep ==
  \A c \in Calls :
     (call[c].pc = "notify" /\ call'[c].pc = "done")
     => (call'[c].alerted <=>
           (/\ call[c].newStock <= call[c].newThreshold
            /\ call[c].newThreshold > 0))

Received(cl) == wire[cl] \o send[cl]

BroadcastsOf(q) == SelectSeq(q, LAMBDA m : m.timestamp > 0)

\* C9: the hub appends a broadcast event to the outbound queue of every
\* registered client whose queue is not full; a client whose queue is full
\* misses that event (counted as a drop) and the other clients still get it.
FanOutStep ==
  (hubBroadcast # <<>> /\ hubBroadcast' = Tail(hubBroadcast)) =>
    LET m == Head(hubBroadcast) IN
    \A cl \in Clients :
       /\ (cl \in registry /\ Len(send[cl]) < SendCap)
            => (send'[cl] = Append(send[cl], m) /\ drops'[cl] = drops[cl])
       /\ (cl \in registry /\ Len(send[cl]) >= SendCap)
            => (send'[cl] = send[cl] /\ drops'[cl] = drops[cl] + 1)
       /\ cl \notin registry
            => (send'[cl] = send[cl] /\ drops'[cl] = drops[cl])

FanOut == [][FanOutStep]_vars

\* two clients are registered; one missed an event because its queue was
\* full and the other received that event
FanOutWitness ==
  \E cl, d \in registry :
     /\ cl # d
     /\ drops[cl] > 0 /\ drops[d] = 0
     /\ \E i \in 1..Len(Received(d)) :
          /\ Received(d)[i].timestamp > 0
          /\ \A j \in 1..Len(Received(cl)) : Received(cl)[j] # Received(d)[i]

\* C10: on every client's outbound queue the broadcast events appear in the
\* order in which they were broadcast.
BroadcastOrder ==
  \A cl \in Clients :
     LET q == BroadcastsOf(Received(cl)) IN
     \A i, j \in 1..Len(q) : i < j => q[i].timestamp < q[j].timestamp

\* a client has been handed two broadcast events and its writer loop has
\* written the first
BroadcastOrderWitness ==
  \E cl \in Clients :
     /\ Len(BroadcastsOf(Received(cl))) >= 2
     /\ BroadcastsOf(wire[cl]) # <<>>

\* C11: with one client that never drains its outbound queue, the hub still
\* takes every message out of its register, unregister and broadcast channels,
\* and a broadcast event the hub is about to take reaches the queue of every
\* other client that is registered with room in its queue when the hub takes
\* it.
Timestamps == 1..(MaxEvents + 1)

HeadIs(ts) == hubBroadcast # <<>> /\ Head(hubBroadcast).timestamp = ts

Holds(cl, ts) == \E i \in 1..Len(Received(cl)) : Received(cl)[i].timestamp = ts

SlowClientFull ==
  /\ SlowClient \in registry
  /\ QueueFull(send[SlowClient])
  /\ wire[SlowClient] = <<>>

HubNeverBlocked ==
  /\ (hubBroadcast # <<>>) ~> (hubBroadcast = <<>>)
  /\ (hubRegister # <<>>) ~> (hubRegister = <<>>)
  /\ (hubUnregister # <<>>) ~> (hubUnregister = <<>>)
  /\ \A ts \in Timestamps : \A cl \in Clients \ {SlowClient} :
        (SlowClientFull /\ HeadIs(ts))
          ~> (Holds(cl, ts) \/ cl \notin registry \/ drops[cl] > 0)

\* the slow client's queue is full and it has missed an event that the other
\* client, registered, was handed; the hub has emptied its three channels
HubNeverBlockedWitness ==
  /\ SlowClientFull
  /\ drops[SlowClient] > 0
  /\ hubBroadcast = <<>> /\ hubRegister = <<>> /\ hubUnregister = <<>>
  /\ \E cl \in registry \ {SlowClient} : \E ts \in Timestamps :
        Holds(cl, ts) /\ ~Holds(SlowClient, ts)

\* C12: a request hands an event to the hub, or stores and broadcasts a
\* low-stock notification, only in a step taken after its own transaction
\* committed; a request that answered with a failure has emitted no event,
\* derived no alert and stored no notification.
NotifiedBy(c) == {i \in 1..Len(notifications) : notifications[i] = c}

EventsFrom(c) == {i \in 1..Len(hubBroadcast) : hubBroadcast[i].from = c}

EmitStep ==
  \A c \in Calls :
     (\/ call'[c].emitted > call[c].emitted
      \/ (call'[c].alerted /\ ~call[c].alerted)
      \/ (call'[c] # call[c] /\ (hubBroadcast' # hubBroadcast \/ clock' # clock
                                  \/ notifications' # notifications)))
     => /\ call[c].engine = "ok"
        /\ call[c].pc \notin TxPcs

FailedEmitsNothing ==
  \A c \in Calls :
     /\ (call[c].emitted > 0 \/ call[c].alerted \/ NotifiedBy(c) # {}
            \/ EventsFrom(c) # {})
          => call[c].engine = "ok"
     /\ (call[c].pc = "done" /\ call[c].result # "ok")
          => /\ call[c].emitted = 0 /\ ~call[c].alerted
             /\ NotifiedBy(c) = {} /\ EventsFrom(c) = {}

EmitOnlyAfterCommit == []FailedEmitsNothing /\ [][EmitStep]_vars

\* one request committed and emitted its event and its alert; another was
\* rejected by the store and emitted nothing
EmitOnlyAfterCommitWitness ==
  \E c, d \in StockRequests("p1") :
     /\ call[c].pc = "done" /\ call[c].emitted = 2 /\ NotifiedBy(c) # {}
     /\ call[d].pc = "done" /\ call[d].result = "check_violation"
     /\ call[d].emitted = 0

\* the answer the same request would have got had it failed in the store
StorageFailure(r) == [r EXCEPT !.engine = "storage", !.result = "storage"]

\* C13 (as stated): a call rejected because the quantity would go negative
\* made no change and is answered differently from a call that failed in
\* the store, and differently from a call for an unknown product.
InsufficientStockTyped ==
  \A c \in Calls :
     (call[c].pc = "done" /\ call[c].engine = "check_violation")
     => /\ RowsOf(c) = {}
        /\ HttpStatus(call[c]) # HttpStatus(StorageFailure(call[c]))
        /\ HttpStatus(call[c])
             # HttpStatus([call[c] EXCEPT !.engine = "none", !.result = "not_found"])

\* the request found no products row: by the handler's read, or by the
\* engine's INSERT after the row was deleted
MissingProduct(c) ==
  /\ call[c].kind = "UpdateStock" /\ call[c].pc = "done"
  /\ call[c].result = "not_found" \/ call[c].engine = "fk_violation"

\* C14 (as stated): a call for a product that does not exist is answered
\* not-found, differently from a failure of the store, and wrote nothing.
NotFoundForUnknownProduct ==
  \A c \in Calls :
     MissingProduct(c)
     => /\ call[c].result = "not_found"
        /\ HttpStatus(call[c]) # HttpStatus(StorageFailure(call[c]))
        /\ RowsOf(c) = {}

\* C15: once a stock mutation has committed and been read back, every later
\* step of its request (handing the event to the hub, storing and
\* broadcasting the notification) leaves the committed quantity and the
\* movement rows as they are and ends in the answer success, whether the
\* hub's queue took the message or was full and whether the notification was
\* stored or not.
BroadcastPcs == {"bcast", "notify", "cbcast"}

BroadcastSideStep ==
  \A c \in Calls :
     (call[c].pc \in BroadcastPcs /\ call'[c] # call[c])
     => /\ call'[c].pc \in BroadcastPcs \cup {"done"}
        /\ call'[c].pc = "done" => call'[c].result = "ok"
        /\ call'[c].engine = "ok"
        /\ stock' = stock /\ movements' = movements /\ exists' = exists

BroadcastIndependence == [][BroadcastSideStep]_vars

\* the hub's queue was full when this request handed over its event, and
\* its notification could not be stored: it was answered success and its
\* movement row and quantity are in place
BroadcastIndependenceWitness ==
  \E c \in StockRequests("p1") :
     /\ call[c].pc = "done" /\ call[c].result = "ok"
     /\ call[c].alerted /\ NotifiedBy(c) = {} /\ EventsFrom(c) = {}
     /\ Len(hubBroadcast) = HubCap
     /\ RowsOf(c) # {} /\ stock["p1"] = call[c].committed

\* C16 (as stated): the movement table is append-only: every step keeps each
\* committed movement row, unchanged and in place.
MovementsKeptStep ==
  /\ Len(movements') >= Len(movements)
  /\ \A i \in 1..Len(movements) : movements'[i] = movements[i]

MovementsAppendOnly == [][MovementsKeptStep]_vars

\* C17: every low-stock alert the system derives carries severity critical
\* when its triggering quantity is 0 and high when it is not.
SeverityCriticalIffZero ==
  \A a \in GetAlerts :
     /\ a.severity \in {"critical", "high"}
     /\ a.severity = "critical" <=> a.current_stock = 0
     /\ a.current_stock = stock[a.product_id]

\* two alerts are derived at once: one for a product at quantity 0, one for
\* a product at a positive quantity at or below its threshold
SeverityCriticalIffZeroWitness ==
  \E a, b \in GetAlerts :
     /\ a.current_stock = 0 /\ a.severity = "critical"
     /\ b.current_stock > 0 /\ b.severity = "high"

\* C18: when the hub takes an unregister for a session the registry does not
\* hold (already unregistered, or not registered yet), the registry, every
\* outbound queue and every queue's closed flag stay as they are; the queue
\* of a session the registry holds is open, so no queue is closed twice.
UnregisterStep ==
  (hubUnregister # <<>> /\ hubUnregister' = Tail(hubUnregister)) =>
    LET cl == Head(hubUnregister) IN
    /\ cl \notin registry
         => /\ registry' = registry /\ send' = send
            /\ sendClosed' = sendClosed /\ session' = session
    /\ cl \in registry
         => /\ ~sendClosed[cl] /\ sendClosed'[cl]
            /\ registry' = registry \ {cl}
            /\ \A d \in Clients \ {cl} : sendClosed'[d] = sendClosed[d]

UnregisterIdempotent == [][UnregisterStep]_vars

\* the writer loop and the reader loop of one session each triggered
\* unregister, and the hub has taken both
UnregisterIdempotentWitness ==
  \E cl \in Clients :
     /\ session[cl].reader = "exited" /\ session[cl].writer = "exited"
     /\ send[cl] # <<>>
     /\ sendClosed[cl] /\ cl \notin registry
     /\ hubUnregister = <<>>

\* C19 (as stated): the answer to a successful stock mutation names the
\* movement row that was persisted for it.
ReturnsPersistedMovement ==
  \A c \in Calls :
     (/\ call[c].kind = "UpdateStock" /\ call[c].pc = "done"
      /\ call[c].result = "ok" /\ call[c].product \in exists)
     => \E i \in 1..Len(movements) :
           /\ movements[i].id = Response(c).stock_movement.id
           /\ movements[i].product = Response(c).stock_movement.product
           /\ movements[i].change = Response(c).stock_movement.change

\* the quantity the mutation of request c started from, and the one it wrote
QuantityBefore(c) == call[c].committed - call[c].change
QuantityAfter(c) == call[c].committed

\* C20 (as stated): a mutation derives an alert exactly when the quantity
\* before it was above the threshold and the quantity after it is at or
\* below the threshold.
AlertOnlyOnTransitionStep ==
  \A c \in Calls :
     (call[c].pc = "notify" /\ call'[c].pc = "done")
     => (call'[c].alerted <=>
           (/\ QuantityBefore(c) > call[c].newThreshold
            /\ QuantityAfter(c) <= call[c].newThreshold))

AlertIgnoresPreviousStep ==
  \A c \in Calls :
     (call[c].pc = "notify" /\ call'[c].pc = "done" /\ call[c].newThreshold > 0)
     => LET thr == call[c].newThreshold
            new == call[c].newStock
        IN
        /\ (QuantityBefore(c) > thr /\ new <= thr) => call'[c].alerted
        /\ (QuantityBefore(c) <= thr /\ new <= thr) => call'[c].alerted
        /\ new > thr => ~call'[c].alerted

EventCarriesCommitted ==
  \A c \in Calls :
     (/\ call[c].kind = "UpdateStock" /\ call[c].engine = "ok"
      /\ \A d \in Calls : call[d].kind \in {"none", "UpdateStock"})
     => /\ \A i \in EventsFrom(c) :
             hubBroadcast[i].type = "stock_change"
               => hubBroadcast[i].new_stock = QuantityAfter(c)
        /\ call[c].oldStock = QuantityBefore(c)

\* the event with this timestamp was built and is no longer in hub.Broadcast:
\* the hub has fanned it out (or the handler's send found the channel full)
Processed(ts) ==
  /\ ts < clock
  /\ \A i \in 1..Len(hubBroadcast) : hubBroadcast[i].timestamp # ts

\* C22: an event the hub fans out reaches no session that is not registered
\* at that moment, and once the hub has fanned an event out, a session that
\* does not hold it never gets it: a session registered later receives the
\* snapshot messages and later events only.
NoRetroactiveStep ==
  \A cl \in Clients : \A ts \in Timestamps :
     /\ (HeadIs(ts) /\ hubBroadcast' = Tail(hubBroadcast) /\ cl \notin registry)
          => (send'[cl] = send[cl] /\ wire'[cl] = wire[cl])
     /\ (Processed(ts) /\ ~Holds(cl, ts)) => ~Holds(cl, ts)'

NoRetroactiveDelivery == [][NoRetroactiveStep]_vars

\* event 1 was fanned out to a while b was not registered; b, registered
\* since, holds its snapshot and event 2 but not event 1
NoRetroactiveDeliveryWitness ==
  /\ {"a", "b"} \subseteq registry
  /\ Processed(1) /\ Holds("a", 1) /\ ~Holds("b", 1)
  /\ drops["b"] = 0 /\ session["b"].conn = "open"
  /\ Holds("b", 0) /\ Holds("b", 2)

\* C23: a session moves Connecting -> Registered -> Closed and in no other
\* way; once Closed it stays Closed, is not registered again, has nothing
\* appended to its outbound queue and its queue stays closed.
LifecycleMoves ==
  {<<"none", "connecting">>, <<"connecting", "registered">>,
   <<"registered", "closed">>}

LifecycleStep ==
  \A cl \in Clients :
     /\ \/ session'[cl].state = session[cl].state
        \/ <<session[cl].state, session'[cl].state>> \in LifecycleMoves
     /\ session[cl].state = "closed"
          => /\ session'[cl].state = "closed"
             /\ cl \notin registry'
             /\ \A i \in 1..Len(hubRegister') : hubRegister'[i] # cl
             /\ sendClosed[cl] /\ sendClosed'[cl]
             /\ \/ send'[cl] = send[cl]
                \/ send[cl] # <<>> /\ send'[cl] = Tail(send[cl])
             /\ drops'[cl] = drops[cl]

ClosedIsTerminal == [][LifecycleStep]_vars

\* session a is Closed, and the hub has since fanned out an event that the
\* registered session b holds and a does not
ClosedIsTerminalWitness ==
  /\ session["a"].state = "closed"
  /\ "b" \in registry
  /\ hubBroadcast = <<>>
  /\ \E ts \in Timestamps :
        /\ Holds("b", ts) /\ ~Holds("a", ts)
        /\ \E us \in Timestamps : us < ts /\ Holds("a", us)

\* C24: a registered session whose connection has failed or was closed by
\* its client, and whose reader loop has not yet seen it, is eventually
\* unregistered with its queue closed and both its loops exited.
FailedWhileRegistered(cl) ==
  /\ cl \in registry
  /\ session[cl].conn = "broken"
  /\ session[cl].reader = "running"

Reclaimed(cl) ==
  /\ cl \notin registry /\ sendClosed[cl]
  /\ session[cl].reader = "exited" /\ session[cl].writer = "exited"

SessionReclaimed == \A cl \in Clients : FailedWhileRegistered(cl) ~> Reclaimed(cl)

\* a session that failed while registered has been reclaimed: its writer
\* loop exited on a failed write and its reader loop on the failed read
SessionReclaimedWitness ==
  \E cl \in Clients :
     /\ Reclaimed(cl) /\ session[cl].conn = "broken"
     /\ send[cl] # <<>>
     /\ hubUnregister = <<>>

\* the request that wrote a movement row (row 0 is the opening row)
ReasonOfRow(r) == IF r.id \in Calls THEN call[r.id].reason ELSE "purchase"

\* C25 (as stated): no persisted movement row has change 0 or a reason
\* outside the closed set, and a request with such a value is rejected
\* and wrote nothing.
NoZeroDeltaNoBadReason ==
  /\ \A i \in 1..Len(movements) :
        /\ movements[i].change # 0
        /\ CheckReason(ReasonOfRow(movements[i]))
  /\ \A c \in Calls :
        (call[c].pc = "done" /\ (call[c].change = 0 \/ ~CheckReason(call[c].reason)))
          => (call[c].result # "ok" /\ RowsOf(c) = {})

\* the movement rows of one product
RowsOfProduct(rows, q) == SelectSeq(rows, LAMBDA r : r.product = q)

\* C26: a step of the mutation engine for one product leaves the quantity,
\* the movement rows and the row lock of every other product as they are,
\* and an engine call whose own product's row is not locked by another call
\* can run its UPDATE whatever locks are held on other products.
OtherProductsStep ==
  \A c \in Calls :
     (call[c].pc \in TxPcs /\ call'[c] # call[c])
     => \A q \in Products \ {call[c].product} :
           /\ stock'[q] = stock[q]
           /\ lock'[q] = lock[q]
           /\ RowsOfProduct(movements', q) = RowsOfProduct(movements, q)

NeverWaitsForOtherProduct ==
  \A c \in Calls :
     (/\ call[c].pc = "tx_update"
      /\ call[c].product \in exists
      /\ lock[call[c].product] \in {0, c})
     => ENABLED (ExecUpdate(c) /\ faults' = faults)

ProductsIndependent == []NeverWaitsForOtherProduct /\ [][OtherProductsStep]_vars

\* two engine calls hold the row locks of two different products at once
ProductsIndependentWitness ==
  \E c, d \in Calls :
     /\ call[c].product # call[d].product
     /\ lock[call[c].product] = c /\ lock[call[d].product] = d
     /\ call[c].pc \in TxPcs /\ call[d].pc \in TxPcs

\* C27 (as stated): the initial-data goroutine of a connection never sends on
\* the client's outbound queue after the hub has closed it.
SnapshotNeverSendsOnClosed ==
  \A cl \in Clients : session[cl].snapshot # "panic"

StockChangesFrom(c) ==
  {i \in EventsFrom(c) : hubBroadcast[i].type = "stock_change"}

\* C28: a request at its BroadcastStockUpdate or BroadcastNotification call
\* can always take that step; the step appends the one message to
\* hub.Broadcast when it has room and leaves hub.Broadcast as it is when it
\* has none, and the request goes on; no request has more than one
\* stock_change message in hub.Broadcast.
BroadcastCallStep ==
  \A c \in Calls :
     (call[c].pc \in BroadcastPcs /\ call'[c] # call[c])
     => /\ call'[c].pc \in {"notify", "done"}
        /\ Len(hubBroadcast) >= HubCap => hubBroadcast' = hubBroadcast
        /\ Len(hubBroadcast) < HubCap
             => \/ /\ Len(hubBroadcast') = Len(hubBroadcast) + 1
                   /\ hubBroadcast' = Append(hubBroadcast, hubBroadcast'[Len(hubBroadcast')])
                   /\ hubBroadcast'[Len(hubBroadcast')].from = c
                   /\ hubBroadcast'[Len(hubBroadcast')].type =
                        IF call[c].pc = "notify" THEN "notification"
                        ELSE "stock_change"
                \/ /\ call[c].pc \in {"cbcast", "notify"}
                   /\ hubBroadcast' = hubBroadcast

BroadcastCallReady ==
  \A c \in Calls :
     /\ call[c].pc = "bcast" => ENABLED SendStockChange(c)
     /\ call[c].pc = "notify" => ENABLED Notify(c)
     /\ call[c].pc = "cbcast" => ENABLED CreateProductBroadcast(c)
     /\ Cardinality(StockChangesFrom(c)) <= 1

BroadcastNeverBlocks == []BroadcastCallReady /\ [][BroadcastCallStep]_vars

\* two committed mutations answered success: one handed its stock_change
\* message to the hub, the other found hub.Broadcast full and handed none
BroadcastNeverBlocksWitness ==
  \E c, d \in StockRequests("p1") :
     /\ call[c].pc = "done" /\ call[c].result = "ok"
     /\ call[d].pc = "done" /\ call[d].result = "ok"
     /\ Cardinality(StockChangesFrom(c)) = 1
     /\ EventsFrom(d) = {} /\ call[d].emitted > 0
     /\ RowsOf(d) # {}

AlertedProducts == {a.product_id : a \in GetAlerts}

\* C29: a product with threshold 0 is in no connection snapshot's low-stock
\* list and no dashboard alert and no request on it derives or stores a
\* notification, whatever its quantity; a product with a positive threshold
\* is in the list and the alerts exactly when its quantity is at or below
\* the threshold, and a request on it derives a notification exactly when
\* the quantity it reads back is.
ThresholdRule ==
  /\ \A p \in exists :
        /\ minThreshold[p] = 0
             => (p \notin LowStockProducts /\ p \notin AlertedProducts)
        /\ minThreshold[p] > 0
             => /\ p \in LowStockProducts <=> stock[p] <= minThreshold[p]
                /\ p \in AlertedProducts <=> stock[p] <= minThreshold[p]
  /\ \A c \in Calls :
        (call[c].alerted \/ NotifiedBy(c) # {})
          => minThreshold[call[c].product] > 0

ThresholdRuleStep ==
  \A c \in Calls :
     (call[c].pc = "notify" /\ call'[c].pc = "done")
     => /\ call[c].newThreshold = 0
             => (~call'[c].alerted /\ notifications' = notifications)
        /\ call[c].newThreshold > 0
             => (call'[c].alerted <=> call[c].newStock <= call[c].newThreshold)

Admitted == {r \in Reqs : req[r].pc = "done" /\ req[r].result = "next"}

\* C30: every client IP has at most Limit admitted requests in every window of
\* Window seconds, and every admitted request still inside the window is in
\* its IP's record.
RateLimitSound ==
  /\ \A ip \in IPs, t \in 0..MaxTime :
        Cardinality({r \in Admitted :
                       req[r].ip = ip /\ t <= req[r].now
                                      /\ req[r].now < t + Window}) <= Limit
  /\ \A r \in Admitted :
        wallClock - req[r].now < Window
          => /\ req[r].ip \in DOMAIN limiter
             /\ Cardinality({i \in 1..Len(limiter[req[r].ip]) :
                               limiter[req[r].ip][i] = req[r].now})
                  >= Cardinality({q \in Admitted :
                                    req[q].ip = req[r].ip
                                      /\ req[q].now = req[r].now})

=============================================================================
